---- MODULE Spec2Model ----
(***************************************************************************)
(* The row-to-serde bridge of actix-todo-sqlx (src/model/serde.rs).        *)
(*                                                                         *)
(* One behaviour is one transcoding of one database row: a serde consumer  *)
(* (a Visitor) asks the row (DbRow) for a shape, the row answers by        *)
(* opening a MapSeqqDeserializer over itself (as SeqAccess or MapAccess),  *)
(* and the consumer pulls columns through it; every column is handed to    *)
(* the consumer's seed wrapped in a DbColumn, which the seed then asks for *)
(* a scalar.                                                               *)
(*                                                                         *)
(* "Emitted" means: wrapped in a DbColumn and handed to the seed.  What    *)
(* the seed's request on the DbColumn then yields is the column's answer.  *)
(***************************************************************************)
EXTENDS Integers, Sequences, FiniteSets, TLC

\* Widest row enumerated (besides the todo row of the tests).
MaxWidth == 2

\* How many end-of-data signals a consumer may ask for again.
MaxNones == 2

----------------------------------------------------------------------------
(* Columns and rows                                                        *)

Col(name, tag, null, val) ==
    [name |-> name, tag |-> tag, null |-> null, val |-> val]

\* The three columns of table todo_todos (struct Todo): the id of the
\* documented example, name and done of the row the tests insert first.
IdCol == Col("id", "INT4", FALSE, "7")

NameCol == Col("name", "TEXT", FALSE, "not done")

DoneCol == Col("done", "BOOL", FALSE, "false")

TodoRow == <<IdCol, NameCol, DoneCol>>

\* Columns a query can return: one per type tag the dispatch knows, one with
\* a tag it does not know, and a NULL.
Pool ==
    { IdCol, NameCol, DoneCol,
      Col("total", "INT8", FALSE, "2"),
      Col("rank", "INT2", FALSE, "1"),
      Col("label", "VARCHAR", FALSE, "done"),
      Col("score", "FLOAT8", FALSE, "3"),
      Col("note", "TEXT", TRUE, "") }

Rows == {TodoRow} \cup UNION { [1..n -> Pool] : n \in 0..MaxWidth }

\* PgRow::len
Width(r) == Len(r)

----------------------------------------------------------------------------
(* Answers of a column                                                     *)

Ans(wrap, kind, ty, v) == [wrap |-> wrap, kind |-> kind, ty |-> ty, v |-> v]

NoAnswer == Ans("-", "-", "-", "-")

\* enum Error
ErrorKinds == {"Custom", "DecodeError", "SqlxError"}

Value(ty, v) == Ans("-", "value", ty, v)

\* visitor.visit_none()
VisitNone == Ans("-", "none", "-", "-")

\* visitor.visit_unit()
VisitUnit == Ans("-", "unit", "-", "-")

\* Err(Error::DecodeError(..)) returned to the seed
DecodeErr == Ans("-", "err", "DecodeError", "-")

\* unimplemented!(): the thread panics, nothing is returned
Panic == Ans("-", "panic", "unimplemented", "-")

\* visitor.visit_some(self) / visitor.visit_newtype_struct(self): the same
\* column goes back to the visitor, whose inner request yields `a`.
Wrapped(w, a) == [a EXCEPT !.wrap = w]

\* (mutant) a payload that does not decode is replaced by a default
Decode_OrDefault(c, ty) ==
    Value(ty, IF c.null THEN "" ELSE c.val)

\* Decode::decode(self.column).map_err(Error::DecodeError): the payload read
\* as `ty`.  A NULL payload has no bytes and fails (UnexpectedNullError).
Decode(c, ty) ==
    IF c.null THEN DecodeErr ELSE Value(ty, c.val)

\* (mutant) the INT4 arm calls deserialize_i64
DispatchOf_Int4AsI64(tag) ==
    CASE tag = "INT8" -> "i64"
      [] tag = "INT4" -> "i64"
      [] tag = "INT2" -> "i16"
      [] tag \in {"TEXT", "VARCHAR"} -> "str"
      [] tag = "BOOL" -> "bool"
      [] OTHER -> "unimplemented"

\* The arm of the match in DbColumn::deserialize_any: the primitive a type
\* tag is decoded as, "unimplemented" for every other tag.
DispatchOf(tag) ==
    CASE tag = "INT8" -> "i64"
      [] tag = "INT4" -> "i32"
      [] tag = "INT2" -> "i16"
      [] tag \in {"TEXT", "VARCHAR"} -> "str"
      [] tag = "BOOL" -> "bool"
      [] OTHER -> "unimplemented"

\* DbColumn::deserialize_any
ColumnAny(c) ==
    IF DispatchOf(c.tag) = "unimplemented"
    THEN Panic
    ELSE Decode(c, DispatchOf(c.tag))

\* The methods of DbColumn that are unimplemented!().
CompositeKinds ==
    {"seq", "tuple", "tuple_struct", "map", "struct", "enum", "identifier"}

UnimplementedKinds == CompositeKinds \cup {"ignored_any"}

\* DbColumn::deserialize_unit (and deserialize_unit_struct, which calls it)
ColumnUnit(c) ==
    IF c.null THEN VisitNone ELSE VisitUnit

\* (mutant) deserialize_identifier delegates to deserialize_any
ColumnLeaf_IdentifierAsAny(c, q) ==
    CASE q \in {"any", "identifier"} -> ColumnAny(c)
      [] q \in {"unit", "unit_struct"} -> ColumnUnit(c)
      [] q \in UnimplementedKinds -> Panic

\* A request that hands no deserializer back to the visitor.
ColumnLeaf(c, q) ==
    CASE q = "any" -> ColumnAny(c)
      [] q \in {"unit", "unit_struct"} -> ColumnUnit(c)
      [] q \in UnimplementedKinds -> Panic

\* (mutant) the null test left out
ColumnOption_AlwaysSome(c, inner) == Wrapped("some", ColumnLeaf(c, inner))

\* DbColumn::deserialize_option: visit_none for a NULL payload, else
\* visit_some(self), the visitor going on with request `inner`.
ColumnOption(c, inner) ==
    IF c.null THEN VisitNone ELSE Wrapped("some", ColumnLeaf(c, inner))

\* DbColumn::deserialize_newtype_struct: visit_newtype_struct(self).
ColumnNewtype(c, inner) == Wrapped("newtype", ColumnLeaf(c, inner))

\* impl Deserializer for DbColumn: the answer to request `q` (q[1] the
\* method called, q[2] the visitor's inner request when the column is handed
\* back to it).
ColumnAnswer(c, q) ==
    CASE q[1] = "option" -> ColumnOption(c, q[2])
      [] q[1] = "newtype_struct" -> ColumnNewtype(c, q[2])
      [] OTHER -> ColumnLeaf(c, q[1])

LeafKinds == {"any", "unit", "unit_struct"} \cup UnimplementedKinds

\* What a visitor asks of a column handed back to it.
InnerKinds == {"any", "seq"}

ColRequests ==
    { <<q, "-">> : q \in LeafKinds }
      \cup { <<w, q>> : w \in {"option", "newtype_struct"}, q \in InnerKinds }

NoRequest == <<"-", "-">>

----------------------------------------------------------------------------
(* Requests on the row                                                     *)

Req(kind, len, fields) == [kind |-> kind, len |-> len, fields |-> fields]

NoReq == Req("-", 0, <<>>)

\* delegate_to_deserialize_any! generates one and the same body under
\* eighteen names (deserialize_bool .. deserialize_identifier); the consumer
\* is given these of them.
DelegatedKinds == { "bool", "i32", "str", "unit", "identifier" }

\* Arities a consumer asks a tuple of.
TupleLens == 0..(MaxWidth + 1)

\* Field lists a consumer declares with a struct request (struct Todo's,
\* and lists that do not match the row).
FieldLists == { <<"id", "name", "done">>, <<"done", "id">> }

NoKey == "-"

\* (mutant) the end test off by one: the last column is never given
AtEnd_StopsEarly(i, r) == i + 1 >= Width(r)

\* if self.index >= self.inner.0.len() { return Ok(None); }
AtEnd(i, r) == i >= Width(r)

\* PgRow::try_get_raw(index) as called by the accessor: the column at the
\* 0-based index, or Error::ColumnIndexOutOfBounds.
TryGetRaw(r, i) ==
    IF i < Width(r)
    THEN [ok |-> TRUE, col |-> r[i + 1]]
    ELSE [ok |-> FALSE, col |-> Col("-", "-", TRUE, "-")]

\* (mutant) the key taken after the cursor instead of at it
ColumnName_NextColumn(r, i) == r[IF i + 1 < Width(r) THEN i + 2 ELSE 1].name

\* self.inner.0.column(self.index).name()
ColumnName(r, i) == r[i + 1].name

\* (mutant) only a tuple longer than the row is refused
TupleLenOk_AtMost(len, r) == len <= Width(r)

\* if len != self.0.len() { return Err(Error::custom("")); }
TupleLenOk(len, r) == len = Width(r)

VARIABLES
    row,         \* the PgRow inside DbRow
    consumer,    \* who drives: "transcode" (serde_transcode) or "arbitrary"
    request,     \* the last request made on the row
    visited,     \* how it was answered: the visitor method called, or "Err"
    phase,       \* "idle", "seq" (SeqAccess open), "map" (MapAccess open), "done"
    index,       \* MapSeqqDeserializer::index
    handed,      \* the columns handed to a seed as DbColumn, in order
    pairs,       \* per value handed: the key that went before it, and the column
    pendingKey,  \* the name next_key_seed gave since the last value
    out,         \* the array the transcoder has written for this row
    lastCall,    \* "element", "key", "value": the accessor method called last
    last,        \* what it returned: "Some", "None", an error kind, or "panic"
    colReq,      \* the seed's request on the column handed last
    lastAnswer,  \* the answer to it
    nones,       \* end-of-data signals given so far
    outcome      \* what the row's deserialize_* call returned

vars ==
    << row, consumer, request, visited, phase, index, handed, pairs,
       pendingKey, out, lastCall, last, colReq, lastAnswer, nones, outcome >>

accessor == << index, handed, pairs, pendingKey, out, lastCall, last, colReq,
               lastAnswer, nones >>

Init ==
    /\ row \in Rows
    /\ consumer \in {"transcode", "arbitrary"}
    /\ request = NoReq
    /\ visited = "-"
    /\ phase = "idle"
    /\ index = 0
    /\ handed = <<>>
    /\ pairs = <<>>
    /\ pendingKey = NoKey
    /\ out = <<>>
    /\ lastCall = "-"
    /\ last = "-"
    /\ colReq = NoRequest
    /\ lastAnswer = NoAnswer
    /\ nones = 0
    /\ outcome = "-"

\* visitor.visit_seq(MapSeqqDeserializer { index: 0, inner: &self })
OpenSeq(q) ==
    /\ request' = q
    /\ visited' = "visit_seq"
    /\ phase' = "seq"
    /\ index' = 0
    /\ UNCHANGED << row, consumer, handed, pairs, pendingKey, out, lastCall,
                    last, colReq, lastAnswer, nones, outcome >>

\* visitor.visit_map(MapSeqqDeserializer { index: 0, inner: &self })
OpenMap(q) ==
    /\ request' = q
    /\ visited' = "visit_map"
    /\ phase' = "map"
    /\ index' = 0
    /\ UNCHANGED << row, consumer, handed, pairs, pendingKey, out, lastCall,
                    last, colReq, lastAnswer, nones, outcome >>

\* The row goes back to the visitor (visit_some / visit_newtype_struct),
\* which may make its inner request on it.
HandBack(q, how) ==
    /\ request' = q
    /\ visited' = how
    /\ UNCHANGED << row, consumer, phase, outcome >>
    /\ UNCHANGED accessor

\* The call returns without opening an accessor.
Return(q, how, result) ==
    /\ request' = q
    /\ visited' = how
    /\ phase' = "done"
    /\ outcome' = result
    /\ UNCHANGED << row, consumer >>
    /\ UNCHANGED accessor

\* serde_transcode asks deserialize_any of whatever it is given; any other
\* visitor may ask for any shape.
MayAsk(kind) ==
    /\ phase = "idle"
    /\ consumer = "arbitrary" \/ kind = "any"

\* DbRow::deserialize_seq
DeserializeSeq ==
    /\ MayAsk("seq")
    /\ OpenSeq(Req("seq", 0, <<>>))

\* DbRow::deserialize_any
DeserializeAny ==
    /\ MayAsk("any")
    /\ OpenSeq(Req("any", 0, <<>>))

\* delegate_to_deserialize_any! { deserialize_bool, ... }
DeserializeDelegated ==
    \E k \in DelegatedKinds :
        /\ MayAsk(k)
        /\ OpenSeq(Req(k, 0, <<>>))

\* DbRow::deserialize_unit_struct
DeserializeUnitStruct ==
    /\ MayAsk("unit_struct")
    /\ OpenSeq(Req("unit_struct", 0, <<>>))

\* (mutant) deserialize_enum opens the named traversal
DeserializeEnum_AsMap ==
    /\ MayAsk("enum")
    /\ OpenMap(Req("enum", 0, <<>>))

\* DbRow::deserialize_enum
DeserializeEnum ==
    /\ MayAsk("enum")
    /\ OpenSeq(Req("enum", 0, <<>>))

\* DbRow::deserialize_option
DeserializeOption ==
    /\ MayAsk("option")
    /\ HandBack(Req("option", 0, <<>>), "visit_some")

\* DbRow::deserialize_newtype_struct
DeserializeNewtypeStruct ==
    /\ MayAsk("newtype_struct")
    /\ HandBack(Req("newtype_struct", 0, <<>>), "visit_newtype_struct")

\* DbRow::deserialize_tuple
DeserializeTuple ==
    \E len \in TupleLens :
        /\ MayAsk("tuple")
        /\ IF TupleLenOk(len, row)
           THEN OpenSeq(Req("tuple", len, <<>>))
           ELSE Return(Req("tuple", len, <<>>), "Err", "Custom")

\* DbRow::deserialize_tuple_struct
DeserializeTupleStruct ==
    \E len \in TupleLens :
        /\ MayAsk("tuple_struct")
        /\ IF TupleLenOk(len, row)
           THEN OpenSeq(Req("tuple_struct", len, <<>>))
           ELSE Return(Req("tuple_struct", len, <<>>), "Err", "Custom")

\* DbRow::deserialize_map
DeserializeMap ==
    /\ MayAsk("map")
    /\ OpenMap(Req("map", 0, <<>>))

\* DbRow::deserialize_struct
DeserializeStruct ==
    \E fields \in FieldLists :
        /\ MayAsk("struct")
        /\ OpenMap(Req("struct", 0, fields))

\* DbRow::deserialize_ignored_any
DeserializeIgnoredAny ==
    /\ MayAsk("ignored_any")
    /\ Return(Req("ignored_any", 0, <<>>), "visit_none", "ok")

----------------------------------------------------------------------------
(* The accessor: impl SeqAccess / MapAccess for MapSeqqDeserializer        *)

\* serde_transcode pulls with `while let Some(()) = seq.next_element_seed(..)?`:
\* it stops at the first None and at the first Err.  Another visitor may
\* call again after either.
MayPull ==
    consumer = "arbitrary" \/ last \notin (ErrorKinds \cup {"None"})

\* serde_transcode's seed asks deserialize_any of the column.
SeedRequests ==
    IF consumer = "transcode" THEN { <<"any", "-">> } ELSE ColRequests

\* Ok(None)
SignalEnd(call) ==
    /\ lastCall' = call
    /\ last' = "None"
    /\ nones' = nones + 1
    /\ colReq' = NoRequest
    /\ lastAnswer' = NoAnswer
    /\ UNCHANGED << row, consumer, request, visited, phase, index, handed,
                    pairs, pendingKey, out, outcome >>

\* try_get_raw(..)? returned the sqlx error
FailRetrieval(call) ==
    /\ lastCall' = call
    /\ last' = "SqlxError"
    /\ colReq' = NoRequest
    /\ lastAnswer' = NoAnswer
    /\ UNCHANGED << row, consumer, request, visited, phase, handed, pairs,
                    pendingKey, out, nones, outcome >>

\* seed.deserialize(DbColumn { column }): the column is handed to the seed,
\* which asks `q` of it; the answer goes back to the caller as it is.
Deliver(c, q) ==
    LET a == ColumnAnswer(c, q) IN
    /\ handed' = Append(handed, c)
    /\ colReq' = q
    /\ lastAnswer' = a
    /\ IF a.kind = "panic"
       THEN /\ last' = "panic"
            /\ phase' = "done"
            /\ outcome' = "panic"
            /\ out' = out
       ELSE IF a.kind = "err"
       THEN /\ last' = a.ty
            /\ out' = out
            /\ UNCHANGED << phase, outcome >>
       ELSE /\ last' = "Some"
            /\ out' = IF consumer = "transcode" THEN Append(out, a) ELSE out
            /\ UNCHANGED << phase, outcome >>

\* SeqAccess::next_element_seed
NextElementSeed ==
    /\ phase = "seq"
    /\ MayPull
    /\ \E q \in SeedRequests :
        IF AtEnd(index, row)
        THEN /\ nones < MaxNones
             /\ SignalEnd("element")
        ELSE LET got == TryGetRaw(row, index) IN
             IF ~got.ok
             THEN /\ index' = index
                  /\ FailRetrieval("element")
             ELSE /\ index' = index + 1
                  /\ lastCall' = "element"
                  /\ Deliver(got.col, q)
                  /\ UNCHANGED << row, consumer, request, visited, pairs,
                                  pendingKey, nones >>

\* MapAccess::next_key_seed
NextKeySeed ==
    /\ phase = "map"
    /\ MayPull
    /\ IF AtEnd(index, row)
       THEN /\ nones < MaxNones
            /\ SignalEnd("key")
       ELSE /\ pendingKey' = ColumnName(row, index)
            /\ lastCall' = "key"
            /\ last' = "Some"
            /\ colReq' = NoRequest
            /\ lastAnswer' = NoAnswer
            /\ UNCHANGED << row, consumer, request, visited, phase, index,
                            handed, pairs, out, nones, outcome >>

\* (mutant) the cursor is advanced before the column is retrieved
NextValueSeed_AdvancesFirst ==
    /\ phase = "map"
    /\ MayPull
    /\ \E q \in SeedRequests :
        LET got == TryGetRaw(row, index) IN
        IF ~got.ok
        THEN /\ index' = index + 1
             /\ FailRetrieval("value")
        ELSE /\ index' = index + 1
             /\ lastCall' = "value"
             /\ pairs' = Append(pairs, [key |-> pendingKey, col |-> got.col])
             /\ pendingKey' = NoKey
             /\ Deliver(got.col, q)
             /\ UNCHANGED << row, consumer, request, visited, nones >>

\* MapAccess::next_value_seed
NextValueSeed ==
    /\ phase = "map"
    /\ MayPull
    /\ \E q \in SeedRequests :
        LET got == TryGetRaw(row, index) IN
        IF ~got.ok
        THEN /\ index' = index
             /\ FailRetrieval("value")
        ELSE /\ index' = index + 1
             /\ lastCall' = "value"
             /\ pairs' = Append(pairs, [key |-> pendingKey, col |-> got.col])
             /\ pendingKey' = NoKey
             /\ Deliver(got.col, q)
             /\ UNCHANGED << row, consumer, request, visited, nones >>

\* The visitor returns, and with it the row's deserialize_* call: with the
\* error of the call that failed last (serde_transcode's `?`), or with a
\* value.  Only a visitor other than serde_transcode may return before the
\* end of data, or turn an error it got into a value.
VisitorReturn ==
    /\ \/ phase \in {"seq", "map"}
       \/ phase = "idle" /\ visited # "-"
    /\ consumer = "arbitrary" \/ last \in (ErrorKinds \cup {"None"})
    /\ \E result \in {"ok"} \cup ({last} \cap ErrorKinds) :
        /\ consumer = "transcode" /\ last \in ErrorKinds => result = last
        /\ outcome' = result
    /\ phase' = "done"
    /\ UNCHANGED << row, consumer, request, visited >>
    /\ UNCHANGED accessor

Next ==
    \/ DeserializeAny
    \/ DeserializeDelegated
    \/ DeserializeUnitStruct
    \/ DeserializeOption
    \/ DeserializeNewtypeStruct
    \/ DeserializeSeq
    \/ DeserializeTuple
    \/ DeserializeTupleStruct
    \/ DeserializeMap
    \/ DeserializeStruct
    \/ DeserializeEnum
    \/ DeserializeIgnoredAny
    \/ NextElementSeed
    \/ NextKeySeed
    \/ NextValueSeed
    \/ VisitorReturn

Spec == Init /\ [][Next]_vars

----------------------------------------------------------------------------
(* Properties                                                              *)

Prefix(r, n) == SubSeq(r, 1, n)

\* C1: ordinal traversal of a row of width N emits exactly N elements, the
\* i-th being column i, and only then signals completion (None); it never
\* fails to retrieve a column; once completion was signalled every further
\* next-element request signals completion again and emits nothing.
C1_OrdinalTraversal ==
    visited = "visit_seq" =>
        /\ Len(handed) <= Width(row)
        /\ handed = Prefix(row, Len(handed))
        /\ last # "SqlxError"
        /\ last = "None" => handed = row
        /\ nones > 0 => /\ handed = row
                        /\ last = "None"
                        /\ lastAnswer = NoAnswer

\* The todo row traversed as a sequence to its end, and asked twice more.
C1_Witness ==
    /\ request.kind = "seq"
    /\ row = TodoRow
    /\ handed = TodoRow
    /\ nones >= 2

\* C2: named traversal of a row of width N emits exactly N (key, value)
\* pairs in row order, the i-th key being the raw name of column i and the
\* i-th value column i itself, and next-key signals end of data after them;
\* the field list declared with a struct request plays no part.
C2_NamedTraversal ==
    visited = "visit_map" =>
        /\ Len(pairs) <= Width(row)
        /\ \A i \in 1..Len(pairs) :
            /\ pairs[i].col = row[i]
            /\ pairs[i].key # NoKey => pairs[i].key = row[i].name
        /\ pendingKey # NoKey =>
            /\ Len(pairs) < Width(row)
            /\ pendingKey = row[Len(pairs) + 1].name
        /\ last = "None" => Len(pairs) = Width(row)

\* A struct request whose field list is not the row's: the todo row still
\* comes out as its three (name, column) pairs, then end of data.
C2_Witness ==
    /\ request.kind = "struct"
    /\ request.fields = <<"done", "id">>
    /\ row = TodoRow
    /\ pairs = << [key |-> "id", col |-> IdCol],
                  [key |-> "name", col |-> NameCol],
                  [key |-> "done", col |-> DoneCol] >>
    /\ last = "None"

\* C3: a tuple or tuple struct of length L asked of a row of width N fails
\* with Error::Custom when L # N, before any column is retrieved or decoded
\* and whatever the columns hold; when L = N the request is answered as a
\* sequence request is.
C3_TupleArity ==
    request.kind \in {"tuple", "tuple_struct"} =>
        IF request.len # Width(row)
        THEN /\ visited = "Err"
             /\ outcome = "Custom"
             /\ phase = "done"
             /\ index = 0
             /\ handed = <<>>
             /\ lastCall = "-"
             /\ lastAnswer = NoAnswer
        ELSE /\ visited = "visit_seq"
             /\ outcome # "Custom"
             /\ handed = Prefix(row, index)

\* A tuple struct of three fields asked of a row of two columns, one of
\* them NULL.
C3_Witness ==
    /\ request.kind = "tuple_struct"
    /\ request.len = 3
    /\ Width(row) = 2
    /\ row[1].null
    /\ outcome = "Custom"

\* The type tags of the dispatch table.
TableTags == {"INT8", "INT4", "INT2", "TEXT", "VARCHAR", "BOOL"}

\* The primitive the table promises for a tag.
PromisedType(tag) ==
    CASE tag = "INT8" -> "i64"
      [] tag = "INT4" -> "i32"
      [] tag = "INT2" -> "i16"
      [] tag = "TEXT" -> "str"
      [] tag = "VARCHAR" -> "str"
      [] tag = "BOOL" -> "bool"

\* The column handed to the seed last.
LastHanded == handed[Len(handed)]

\* C4: a column whose type tag is outside the dispatch table, asked through
\* the column's "any" request, fails with a DecodeError returned to the
\* consumer, and with nothing else.
C4_UnknownTagIsDecodeError ==
    (/\ colReq[1] = "any"
     /\ handed # <<>>
     /\ LastHanded.tag \notin TableTags)
        => /\ lastAnswer = DecodeErr
           /\ last = "DecodeError"

\* C5: transcoding a row through the row's "any" request writes an array
\* with one entry per column, in row order, each decoded as the primitive
\* the table gives for its tag; the todo row (id=7, name="not done",
\* done=false) gives [7, "not done", false].
C5_AnyArray ==
    consumer = "transcode" =>
        /\ Len(out) <= Width(row)
        /\ \A i \in 1..Len(out) :
            /\ row[i].tag \in TableTags
            /\ out[i] = Value(PromisedType(row[i].tag), row[i].val)
        /\ outcome = "ok" => Len(out) = Width(row)
        /\ (outcome = "ok" /\ row = TodoRow) =>
            out = << Value("i32", "7"),
                     Value("str", "not done"),
                     Value("bool", "false") >>

\* The todo row transcoded to its end: the array starts with the id.
C5_Witness ==
    /\ consumer = "transcode"
    /\ request.kind = "any"
    /\ row = TodoRow
    /\ outcome = "ok"
    /\ Len(out) = 3
    /\ out[1] = Value("i32", IdCol.val)

\* C6: a composite shape (sequence, tuple, tuple struct, map, struct, enum,
\* identifier) asked of a single column always fails and never yields a
\* value, whatever the column's tag, payload or nullness; the same holds
\* when it is asked of a column a visitor was handed back inside Some or a
\* newtype.
C6_CompositeOnColumnFails ==
    /\ colReq[1] \in CompositeKinds =>
        /\ lastAnswer.kind \in {"err", "panic"}
        /\ last \in ErrorKinds \cup {"panic"}
    /\ (colReq[2] \in CompositeKinds /\ lastAnswer.wrap # "-") =>
        /\ lastAnswer.kind \in {"err", "panic"}
        /\ last \in ErrorKinds \cup {"panic"}

\* A map asked of a NULL column.
C6_Witness ==
    /\ colReq[1] = "map"
    /\ handed # <<>>
    /\ LastHanded.null
    /\ lastAnswer.kind = "panic"
    /\ outcome = "panic"

\* C7 as stated: at the row, a request for enum, unit, unit struct or
\* newtype is answered exactly as the "any" request is: the visitor is
\* given the sequence traversal of the row.
C7_AllFallBackToSeq ==
    request.kind \in {"enum", "unit", "unit_struct", "newtype_struct"} =>
        visited = "visit_seq"

\* C7 amended: at the row, a request for enum, unit or unit struct is
\* answered as the "any" request is, with the sequence traversal of the
\* row; a newtype request is answered with visit_newtype_struct, which hands
\* the row itself back to the visitor before any column is retrieved.
C7_FallBackToSeq ==
    /\ request.kind \in {"any", "enum", "unit", "unit_struct"} =>
        /\ visited = "visit_seq"
        /\ phase \in {"seq", "done"}
        /\ pairs = <<>>
        /\ handed = Prefix(row, index)
    /\ request.kind = "newtype_struct" =>
        /\ visited = "visit_newtype_struct"
        /\ phase \in {"idle", "done"}
        /\ index = 0
        /\ handed = <<>>
        /\ lastCall = "-"

\* A newtype request answered: the row is back with the visitor, no
\* traversal is open.
C7_Witness ==
    /\ request.kind = "newtype_struct"
    /\ visited = "visit_newtype_struct"
    /\ phase = "idle"
    /\ row = TodoRow

\* C8: an option asked of a column yields none exactly when the column's
\* payload is NULL; of a column that is not NULL it yields Some of the same
\* column, and decoding that gives the value typed as the table promises.
\* An option asked of the row always yields Some of the row, never none.
C8_Option ==
    /\ (colReq[1] = "option" /\ handed # <<>>) =>
        /\ lastAnswer.kind = "none" <=> LastHanded.null
        /\ LastHanded.null => lastAnswer = VisitNone
        /\ ~LastHanded.null => lastAnswer.wrap = "some"
        /\ (/\ ~LastHanded.null
            /\ colReq[2] = "any"
            /\ LastHanded.tag \in TableTags) =>
                lastAnswer = [ wrap |-> "some", kind |-> "value",
                               ty |-> PromisedType(LastHanded.tag),
                               v |-> LastHanded.val ]
    /\ request.kind = "option" =>
        /\ visited = "visit_some"
        /\ phase \in {"idle", "done"}
        /\ handed = <<>>

\* An option asked of the id column of the todo row: Some(7 as i32).
C8_Witness ==
    /\ colReq = <<"option", "any">>
    /\ handed = <<IdCol>>
    /\ lastAnswer = [wrap |-> "some", kind |-> "value", ty |-> "i32", v |-> "7"]

\* What a failed call leaves behind, and what an operation that ended with
\* an error has done.
C9_State ==
    /\ outcome \in ErrorKinds =>
        /\ phase = "done"
        /\ outcome = "Custom" => visited = "Err" /\ handed = <<>> /\ index = 0
        /\ outcome # "Custom" => last = outcome
    /\ last = "DecodeError" =>
        /\ lastAnswer.kind = "err"
        /\ handed = Prefix(row, index)
    /\ last = "SqlxError" =>
        /\ lastAnswer = NoAnswer
        /\ handed = Prefix(row, index)
        /\ index = Width(row)
    /\ consumer = "transcode" =>
        /\ \A i \in 1..Len(out) : ~row[i].null /\ out[i].v = row[i].val
        /\ Len(out) = IF last \in {"DecodeError", "panic"}
                      THEN index - 1 ELSE index

\* What the step after a failed call is, under serde_transcode: the return
\* of that error, with the cursor, the columns handed and the output left
\* as they were.
C9_Step ==
    /\ (consumer = "transcode" /\ last \in ErrorKinds) =>
        /\ phase' = "done"
        /\ outcome' = last
        /\ UNCHANGED << index, handed, out, last >>
    /\ phase # "done"

\* C9: a failure in a row's transcoding (Custom, DecodeError, SqlxError,
\* raised while retrieving or decoding column i) ends the transcoding with
\* that error at once: the failing column is not asked again, no default
\* stands in for it in the output, and no column after i is retrieved or
\* emitted.
C9_FailureAborts == []C9_State /\ [][C9_Step]_vars

\* A transcoding that met a NULL in the first of two columns: it ended with
\* DecodeError, wrote nothing, and left the second column alone.
C9_Witness ==
    /\ consumer = "transcode"
    /\ outcome = "DecodeError"
    /\ phase = "done"
    /\ index = 1
    /\ Width(row) = 2
    /\ row[1].null
    /\ out = <<>>

\* C10 (steps): the cursor never goes back and moves by one exactly when a
\* column is emitted as an element or as a value; a key request leaves it
\* where it is, and so does a call that fails to retrieve.
C10_Step ==
    /\ index' \in {index, index + 1}
    /\ index' = index + 1 <=> Len(handed') = Len(handed) + 1
    /\ handed' # handed => lastCall' \in {"element", "value"}
    /\ lastCall' = "key" => index' = index
    /\ last' = "SqlxError" => index' = index

\* C10: under any sequence of next-element, next-key and next-value calls
\* (failing calls, repeated keys and values without a key among them) the
\* cursor stays within 0..width, never decreases, and has moved once per
\* element or (key, value) pair emitted.
C10_Cursor ==
    /\ [](/\ 0 <= index
          /\ index <= Width(row)
          /\ index = Len(handed)
          /\ visited = "visit_map" => index = Len(pairs))
    /\ [][C10_Step]_vars

\* A named traversal of two columns in which the first value was asked
\* without its key, the second key was asked, and a value was asked past
\* the end and failed.
C10_Witness ==
    /\ visited = "visit_map"
    /\ Width(row) = 2
    /\ index = 2
    /\ Len(pairs) = 2
    /\ pairs[1].key = NoKey
    /\ pairs[2].key = row[2].name
    /\ lastCall = "value"
    /\ last = "SqlxError"

====
